---- MODULE Spec2Model ----
(***************************************************************************)
(* Report intake pipeline of penguin-backend-next: the drop normalizer,    *)
(* the gachabox aggregator, the act18d3 mitigation, the queue committer    *)
(* (commitReportTask) with its four-way select, report recall, the oneof  *)
(* selectors of the matrix-update protobuf messages, and                   *)
(* ReportService.VerifySingularReport.                                     *)
(***************************************************************************)
EXTENDS Integers, Sequences, FiniteSets, TLC

VARIABLES
    nz,             \* normalizer harness: [drops, failAt, out]
    mit,            \* mitigation harness: [now, source, stageID, out, done]
    msg,            \* protobuf message under construction
    ver,            \* VerifySingularReport: the report, its locals, its outcome
    kv,             \* Redis: report hash -> report id, or Nil
    dropReports,    \* ids of the persisted drop reports not yet deleted
    deleteCalls,    \* report id -> number of DeleteDropReport calls that succeeded
    rc,             \* recall call -> [pc, hash, reportId, result, ...]
    calls,          \* report hash -> the finished recalls of it, in order of return
    recallsStarted, \* number of recalls started so far
    pc,             \* position of the submission request in the pipeline
    req,            \* the request (SingleReportRequest or BatchReportRequest)
    acct,           \* outcome of pipelineAccount
    idx,            \* batch loop index i (1-based)
    reports,        \* the single reports assembled so far
    progress,       \* pipeline stages that have succeeded for this request, and
                    \* the outcome of the latest stage lookup made for it
    task,           \* the report task handed to commitReportTask
    stream,         \* messages published to the JetStream subjects
    pub,            \* the PubAckFuture: "none", "pending", "acked" or "failed"
    ctxDone,        \* whether ctx.Context().Done() is closed
    timerFired,     \* whether the time.After(10s) channel has a value
    observed,       \* the select case taken, and the cases ready when it was
    ret,            \* (taskId, err) returned to the caller
    returns         \* number of times the invocation has returned

nzVars == <<nz>>
mitVars == <<mit>>
msgVars == <<msg>>
verVars == <<ver>>
recallVars == <<kv, dropReports, deleteCalls, rc, calls, recallsStarted>>
pipeVars == <<pc, req, acct, idx, reports, progress, task, stream, pub, ctxDone,
              timerFired, observed, ret, returns>>

(***************************************************************************)
(* Bounds of the model.                                                    *)
(***************************************************************************)
\* longest raw drop list handed to the normalizer harness
MaxDrops == 2
\* most elements of a segment of a MatrixUpdateMessage
MaxElements == 2
\* most recall requests served in one behaviour
MaxRecalls == 3
\* most elements of one batch report request
MaxBatch == 2

(***************************************************************************)
(* Generic helpers.                                                        *)
(***************************************************************************)
Range(s) == {s[k] : k \in 1..Len(s)}

RECURSIVE SeqsUpTo(_, _)
SeqsUpTo(S, n) ==
    IF n = 0 THEN {<<>>}
    ELSE LET shorter == SeqsUpTo(S, n - 1)
         IN  shorter \cup {Append(s, e) : s \in {t \in shorter : Len(t) = n - 1}, e \in S}

RECURSIVE SumQuantity(_)
SumQuantity(drops) ==
    IF drops = <<>> THEN 0 ELSE drops[1].quantity + SumQuantity(Tail(drops))

(***************************************************************************)
(* konst.DropTypeMap and the item catalogue.                               *)
(***************************************************************************)
DropTypeMap ==
    [k \in {"REGULAR_DROP", "NORMAL_DROP", "SPECIAL_DROP", "EXTRA_DROP"} |->
        CASE k = "REGULAR_DROP" -> "REGULAR"
          [] k = "NORMAL_DROP"  -> "REGULAR"
          [] k = "SPECIAL_DROP" -> "SPECIAL"
          [] k = "EXTRA_DROP"   -> "EXTRA"]

\* Go's map index expression: a missing key yields the zero value "".
DropTypeMapGet(k) == IF k \in DOMAIN DropTypeMap THEN DropTypeMap[k] ELSE ""

InternalDropTypes == {"REGULAR", "SPECIAL", "EXTRA"}

\* External drop types a client may send; FURNITURE is outside the vocabulary.
ApiDropTypes == (DOMAIN DropTypeMap) \cup {"FURNITURE"}

\* Items known to the catalogue (ark id -> internal id); "Z" is not known.
ItemCatalog == [a \in {"A", "B"} |-> IF a = "A" THEN 1 ELSE 2]
ArkItemIDs == (DOMAIN ItemCatalog) \cup {"Z"}
Quantities == {1, 2}

ArkDrops == [dropType : ApiDropTypes, itemId : ArkItemIDs, quantity : Quantities]

\* ItemService.GetItemByArkId: the item, pgerr.ErrNotFound, or (when the
\* lookup itself fails, fail = TRUE) another error.
GetItemByArkId(arkId, fail) ==
    IF fail THEN [err |-> "ErrLookup", itemId |-> 0]
    ELSE IF arkId \in DOMAIN ItemCatalog
         THEN [err |-> "nil", itemId |-> ItemCatalog[arkId]]
         ELSE [err |-> "ErrNotFound", itemId |-> 0]

(***************************************************************************)
(* reportutil.MergeDropsByDropTypeAndItemID: sums the quantities of the    *)
(* entries sharing (drop-type, item-external-id), as the ArkDrop carries   *)
(* them; the result keeps the order of first occurrence.                   *)
(***************************************************************************)
SameKey(a, b) == a.dropType = b.dropType /\ a.itemId = b.itemId

RECURSIVE MergeInto(_, _)
MergeInto(acc, drops) ==
    IF drops = <<>> THEN acc
    ELSE LET d == drops[1]
             hit == {k \in 1..Len(acc) : SameKey(acc[k], d)}
         IN  IF hit = {}
             THEN MergeInto(Append(acc, d), Tail(drops))
             ELSE LET k == CHOOSE j \in hit : TRUE
                  IN  MergeInto([acc EXCEPT ![k].quantity = @ + d.quantity],
                                Tail(drops))

MergeDropsByDropTypeAndItemID(drops) == MergeInto(<<>>, drops)

(***************************************************************************)
(* Report.pipelineMergeDropsAndMapDropTypes.  failAt is the position (in   *)
(* the merged list) of the item lookup that fails with an error other than *)
(* not-found, 0 when none does.                                            *)
(***************************************************************************)
RECURSIVE ConvertDrops(_, _, _, _)
ConvertDrops(merged, k, failAt, converted) ==
    IF k > Len(merged) THEN [drops |-> converted, err |-> "nil"]
    ELSE LET drop == merged[k]
             item == GetItemByArkId(drop.itemId, k = failAt)
         IN  IF item.err # "nil"
             THEN IF item.err # "ErrNotFound"
                  THEN [drops |-> <<>>, err |-> item.err]
                  ELSE ConvertDrops(merged, k + 1, failAt, converted)
             ELSE ConvertDrops(merged, k + 1, failAt,
                      Append(converted,
                             [dropType |-> DropTypeMapGet(drop.dropType),
                              itemId   |-> item.itemId,
                              quantity |-> drop.quantity]))

\* a normalizer that treats a not-found item like any other lookup error
pipelineMergeDropsAbortOnNotFound(drops, failAt) ==
    LET merged == MergeDropsByDropTypeAndItemID(drops)
    IN  IF \E k \in 1..Len(merged) :
              GetItemByArkId(merged[k].itemId, FALSE).err = "ErrNotFound"
        THEN [drops |-> <<>>, err |-> "ErrNotFound"]
        ELSE ConvertDrops(merged, 1, failAt, <<>>)
pipelineMergeDropsAndMapDropTypes(drops, failAt) ==
    ConvertDrops(MergeDropsByDropTypeAndItemID(drops), 1, failAt, <<>>)

(***************************************************************************)
(* Normalizer harness: one raw drop list, normalized once.                 *)
(***************************************************************************)
NoOut == [drops |-> <<>>, err |-> "pending"]
IdleNormalize == [drops |-> <<>>, failAt |-> 0, out |-> NoOut]
NormalizeInputs ==
    [drops : SeqsUpTo(ArkDrops, MaxDrops), failAt : {0}, out : {NoOut}]

Normalize ==
    /\ nz.out = NoOut
    /\ \E f \in 0..Len(nz.drops) :
          nz' = [nz EXCEPT !.failAt = f,
                           !.out = pipelineMergeDropsAndMapDropTypes(nz.drops, f)]
    /\ UNCHANGED <<mitVars, msgVars, recallVars, pipeVars, verVars>>

(***************************************************************************)
(* Strings that the code inspects character by character are sequences of  *)
(* one-character strings.                                                  *)
(***************************************************************************)
sAct18d3 == <<"a", "c", "t", "1", "8", "d", "3">>
sUnderscore == <<"_">>
sPerm == <<"_", "p", "e", "r", "m">>
sRep == <<"_", "r", "e", "p">>
Digits == {"0", "1", "2", "3", "4", "5", "6", "7", "8", "9"}

\* strings.HasPrefix / strings.HasSuffix
HasPrefix(s, prefix) ==
    Len(s) >= Len(prefix) /\ SubSeq(s, 1, Len(prefix)) = prefix
HasSuffix(s, suffix) ==
    Len(s) >= Len(suffix) /\ SubSeq(s, Len(s) - Len(suffix) + 1, Len(s)) = suffix

\* strings.Index: position of the first occurrence of old in s, 0 when none
Index(s, old) ==
    LET at == {k \in 1..(Len(s) - Len(old) + 1) :
                  SubSeq(s, k, k + Len(old) - 1) = old}
    IN  IF at = {} THEN 0 ELSE CHOOSE k \in at : \A j \in at : k <= j

\* strings.Replace(s, old, new, 1): the first occurrence only
ReplaceFirst(s, old, new) ==
    LET k == Index(s, old)
    IN  IF k = 0 THEN s
        ELSE SubSeq(s, 1, k - 1) \o new \o SubSeq(s, k + Len(old), Len(s))

(***************************************************************************)
(* Report.pipelineMaaAct18d3TemporaryMitigation.  A time is [sec, ms] with *)
(* 0 <= ms < 1000; UnixMilli() = sec * 1000 + ms is below the cutoff       *)
(* 1654718400000 exactly when sec is below 1654718400.                     *)
(***************************************************************************)
MitigationCutoffSec == 1654718400

UnixMilliBeforeCutoff(now) == now.sec < MitigationCutoffSec

pipelineMaaAct18d3TemporaryMitigation(now, source, stageID) ==
    IF UnixMilliBeforeCutoff(now) /\ source = "MeoAssistant"
    THEN IF HasPrefix(stageID, sAct18d3 \o sUnderscore) /\ HasSuffix(stageID, sPerm)
         THEN ReplaceFirst(stageID, sPerm, sRep)
         ELSE stageID
    ELSE stageID

(***************************************************************************)
(* Mitigation harness: one (time, source, stage id), filtered once.        *)
(***************************************************************************)
Times ==
    [sec : {MitigationCutoffSec - 1, MitigationCutoffSec, MitigationCutoffSec + 1},
     ms  : {0, 999}]
Sources == {"MeoAssistant", "meoassistant", "MeoAssistantArknights",
            "penguin-stats.io", ""}
StagePrefixes == {sAct18d3 \o sUnderscore, sAct18d3, <<"x">> \o sAct18d3 \o sUnderscore,
                  sAct18d3 \o sPerm \o sUnderscore, <<"m", "a", "i", "n", "_">>}
StageMiddles == {<<"0", "5">>, <<"0", "1">>, <<"0", "0">>, <<"1", "0">>,
                 <<"0", "a">>, <<"5">>, <<>>}
StageSuffixes == {sPerm, sRep, sPerm \o sPerm, sPerm \o <<"x">>, <<>>}
StageIDs == {p \o m \o s : p \in StagePrefixes, m \in StageMiddles, s \in StageSuffixes}

MitigationInputs ==
    [now : Times, source : Sources, stageID : StageIDs, out : {<<>>}, done : {FALSE}]
IdleMitigation ==
    [now |-> [sec |-> 0, ms |-> 0], source |-> "", stageID |-> <<>>,
     out |-> <<>>, done |-> FALSE]

Mitigate ==
    /\ ~mit.done
    /\ mit' = [mit EXCEPT
                 !.out = pipelineMaaAct18d3TemporaryMitigation(mit.now, mit.source,
                                                               mit.stageID),
                 !.done = TRUE]
    /\ UNCHANGED <<nzVars, msgVars, recallVars, pipeVars, verVars>>

(***************************************************************************)
(* The matrix-update messages.  A protobuf oneof is a group of member      *)
(* fields: setting a member clears every other member of the group, and a  *)
(* freshly constructed message has no member set.                          *)
(***************************************************************************)
Int32Values == {1, 2}

OneofUnset == [has_stage_id |-> FALSE, stage_id |-> 0,
               has_item_id  |-> FALSE, item_id  |-> 0]

OneofSetStageIdKeepOther(o, v) == [o EXCEPT !.has_stage_id = TRUE, !.stage_id = v]
OneofSetStageId(o, v) ==
    [has_stage_id |-> TRUE, stage_id |-> v, has_item_id |-> FALSE, item_id |-> 0]
OneofSetItemId(o, v) ==
    [has_stage_id |-> FALSE, stage_id |-> 0, has_item_id |-> TRUE, item_id |-> v]

\* message MatrixUpdateMessage.Segment.Element
NewElement == [id |-> OneofUnset, amount |-> 0]
\* message MatrixUpdateMessage.Segment
NewSegment == [bucket |-> OneofUnset, elements |-> <<>>]
\* message MatrixUpdateMessage
NewMatrixUpdateMessage == [kind |-> "MatrixUpdateMessage", segments |-> <<>>]
\* message MatrixUpdateSubscribeReq
NewMatrixUpdateSubscribeReq ==
    [kind |-> "MatrixUpdateSubscribeReq", sequence |-> 0, id |-> OneofUnset]

NewMessages == {NewMatrixUpdateSubscribeReq, NewMatrixUpdateMessage}
IdleMessage == [kind |-> "none"]

SubscribeReqSetSequence ==
    /\ msg.kind = "MatrixUpdateSubscribeReq"
    /\ \E v \in Int32Values : msg' = [msg EXCEPT !.sequence = v]
    /\ UNCHANGED <<nzVars, mitVars, recallVars, pipeVars, verVars>>

SubscribeReqSetStageId ==
    /\ msg.kind = "MatrixUpdateSubscribeReq"
    /\ \E v \in Int32Values : msg' = [msg EXCEPT !.id = OneofSetStageId(@, v)]
    /\ UNCHANGED <<nzVars, mitVars, recallVars, pipeVars, verVars>>

SubscribeReqSetItemId ==
    /\ msg.kind = "MatrixUpdateSubscribeReq"
    /\ \E v \in Int32Values : msg' = [msg EXCEPT !.id = OneofSetItemId(@, v)]
    /\ UNCHANGED <<nzVars, mitVars, recallVars, pipeVars, verVars>>

AppendSegment ==
    /\ msg.kind = "MatrixUpdateMessage"
    /\ msg.segments = <<>>     \* the harness builds messages of one segment
    /\ msg' = [msg EXCEPT !.segments = Append(@, NewSegment)]
    /\ UNCHANGED <<nzVars, mitVars, recallVars, pipeVars, verVars>>

SegmentSetStageId ==
    /\ msg.kind = "MatrixUpdateMessage"
    /\ \E i \in 1..Len(msg.segments), v \in Int32Values :
          msg' = [msg EXCEPT !.segments[i].bucket = OneofSetStageId(@, v)]
    /\ UNCHANGED <<nzVars, mitVars, recallVars, pipeVars, verVars>>

SegmentSetItemId ==
    /\ msg.kind = "MatrixUpdateMessage"
    /\ \E i \in 1..Len(msg.segments), v \in Int32Values :
          msg' = [msg EXCEPT !.segments[i].bucket = OneofSetItemId(@, v)]
    /\ UNCHANGED <<nzVars, mitVars, recallVars, pipeVars, verVars>>

AppendElement ==
    /\ msg.kind = "MatrixUpdateMessage"
    /\ \E i \in 1..Len(msg.segments) :
          /\ Len(msg.segments[i].elements) < MaxElements
          /\ msg' = [msg EXCEPT !.segments[i].elements = Append(@, NewElement)]
    /\ UNCHANGED <<nzVars, mitVars, recallVars, pipeVars, verVars>>

ElementSetStageId ==
    /\ msg.kind = "MatrixUpdateMessage"
    /\ \E i \in 1..Len(msg.segments) :
          \E j \in 1..Len(msg.segments[i].elements), v \in Int32Values :
             msg' = [msg EXCEPT !.segments[i].elements[j].id = OneofSetStageId(@, v)]
    /\ UNCHANGED <<nzVars, mitVars, recallVars, pipeVars, verVars>>

ElementSetItemId ==
    /\ msg.kind = "MatrixUpdateMessage"
    /\ \E i \in 1..Len(msg.segments) :
          \E j \in 1..Len(msg.segments[i].elements), v \in Int32Values :
             msg' = [msg EXCEPT !.segments[i].elements[j].id = OneofSetItemId(@, v)]
    /\ UNCHANGED <<nzVars, mitVars, recallVars, pipeVars, verVars>>

ElementSetAmount ==
    /\ msg.kind = "MatrixUpdateMessage"
    /\ \E i \in 1..Len(msg.segments) :
          \E j \in 1..Len(msg.segments[i].elements), v \in {-1} :
             msg' = [msg EXCEPT !.segments[i].elements[j].amount = v]
    /\ UNCHANGED <<nzVars, mitVars, recallVars, pipeVars, verVars>>


(***************************************************************************)
(* Report.RecallSingularReport.  Two calls may be in progress at once;     *)
(* each runs Redis.Get, DropReportRepo.DeleteDropReport, Redis.Del in      *)
(* order.  The mapping's writer stores integer report ids, so r.Int()      *)
(* succeeds on every stored value.                                         *)
(***************************************************************************)
Nil == 0
ReportHashes == {"h1", "h2"}
ReportIDs == {1, 2}
RecallCalls == {"c1", "c2"}

IdleCall == [pc |-> "idle", hash |-> "", reportId |-> Nil, result |-> "",
             hadMapping |-> FALSE, overlapped |-> FALSE, failed |-> FALSE]

Active(c) == rc[c].pc \in {"get", "delete", "del"}

\* a request arrives: req.ReportHash = h
RecallStart(c, h) ==
    /\ rc[c].pc = "idle"
    /\ recallsStarted < MaxRecalls
    /\ recallsStarted' = recallsStarted + 1
    /\ LET others == {d \in RecallCalls \ {c} : Active(d) /\ rc[d].hash = h}
       IN  rc' = [d \in RecallCalls |->
                    IF d = c
                    THEN [IdleCall EXCEPT !.pc = "get", !.hash = h,
                                          !.overlapped = (others # {})]
                    ELSE IF d \in others THEN [rc[d] EXCEPT !.overlapped = TRUE]
                    ELSE rc[d]]
    /\ UNCHANGED <<kv, dropReports, deleteCalls, calls>>
    /\ UNCHANGED <<nzVars, mitVars, msgVars, pipeVars, verVars>>

\* the call returns: its outcome is appended to the history of its hash
Returned(c, result, failed) ==
    LET done == [rc[c] EXCEPT !.pc = "done", !.result = result, !.failed = failed]
    IN  /\ rc' = [rc EXCEPT ![c] = done]
        /\ calls' = [calls EXCEPT ![done.hash] =
                        Append(@, [result     |-> done.result,
                                   hadMapping |-> done.hadMapping,
                                   overlapped |-> done.overlapped,
                                   failed     |-> done.failed])]

\* a Get that treats an absent mapping as a hit
RecallGetAbsentProceeds(c) ==
    /\ rc[c].pc = "get"
    /\ \/ Returned(c, "ErrRedis", TRUE)
       \/ /\ rc' = [rc EXCEPT ![c].pc = "delete",
                              ![c].reportId = kv[rc[c].hash],
                              ![c].hadMapping = TRUE]
          /\ UNCHANGED calls
    /\ UNCHANGED <<kv, dropReports, deleteCalls, recallsStarted>>
    /\ UNCHANGED <<nzVars, mitVars, msgVars, pipeVars, verVars>>

\* r := s.Redis.Get(ctx, req.ReportHash), and the two checks of r.Err()
RecallGet(c) ==
    /\ rc[c].pc = "get"
    /\ \/ /\ kv[rc[c].hash] = Nil
          /\ Returned(c, "ErrReportNotFound", FALSE)
       \/ Returned(c, "ErrRedis", TRUE)
       \/ /\ kv[rc[c].hash] # Nil
          /\ rc' = [rc EXCEPT ![c].pc = "delete",
                              ![c].reportId = kv[rc[c].hash],
                              ![c].hadMapping = TRUE]
          /\ UNCHANGED calls
    /\ UNCHANGED <<kv, dropReports, deleteCalls, recallsStarted>>
    /\ UNCHANGED <<nzVars, mitVars, msgVars, pipeVars, verVars>>

\* DropReportRepo.DeleteDropReport: ok (the report, if still there, is gone
\* afterwards) | error (nothing changes)
DeleteDropReport(persisted, reportId, ok) ==
    IF ok THEN persisted \ {reportId} ELSE persisted

\* a recall that goes on to Redis.Del whatever DeleteDropReport returned
RecallDeleteDropReportIgnoreErr(c) ==
    /\ rc[c].pc = "delete"
    /\ \E ok \in BOOLEAN :
          /\ dropReports' = DeleteDropReport(dropReports, rc[c].reportId, ok)
          /\ deleteCalls' = IF ok THEN [deleteCalls EXCEPT ![rc[c].reportId] = @ + 1]
                            ELSE deleteCalls
          /\ rc' = [rc EXCEPT ![c].pc = "del"]
          /\ UNCHANGED calls
    /\ UNCHANGED <<kv, recallsStarted>>
    /\ UNCHANGED <<nzVars, mitVars, msgVars, pipeVars, verVars>>

\* err = s.DropReportRepo.DeleteDropReport(ctx, reportId)
RecallDeleteDropReport(c) ==
    /\ rc[c].pc = "delete"
    /\ \E ok \in BOOLEAN :
          /\ dropReports' = DeleteDropReport(dropReports, rc[c].reportId, ok)
          /\ IF ok
             THEN /\ deleteCalls' = [deleteCalls EXCEPT ![rc[c].reportId] = @ + 1]
                  /\ rc' = [rc EXCEPT ![c].pc = "del"]
                  /\ UNCHANGED calls
             ELSE /\ Returned(c, "ErrDelete", TRUE)
                  /\ UNCHANGED deleteCalls
    /\ UNCHANGED <<kv, recallsStarted>>
    /\ UNCHANGED <<nzVars, mitVars, msgVars, pipeVars, verVars>>

\* Redis DEL: removes the key, or fails and leaves it.
RedisDel(h, ok) == IF ok THEN [kv EXCEPT ![h] = Nil] ELSE kv

\* s.Redis.Del(ctx, req.ReportHash); return nil.  The command's result is
\* discarded.
RecallDel(c) ==
    /\ rc[c].pc = "del"
    /\ \E ok \in BOOLEAN : kv' = RedisDel(rc[c].hash, ok)
    /\ Returned(c, "nil", FALSE)
    /\ UNCHANGED <<dropReports, deleteCalls, recallsStarted>>
    /\ UNCHANGED <<nzVars, mitVars, msgVars, pipeVars, verVars>>

\* the finished call's slot serves the next request
RecallFinish(c) ==
    /\ rc[c].pc = "done"
    /\ rc' = [rc EXCEPT ![c] = IdleCall]
    /\ UNCHANGED <<kv, dropReports, deleteCalls, calls, recallsStarted>>
    /\ UNCHANGED <<nzVars, mitVars, msgVars, pipeVars, verVars>>

(***************************************************************************)
(* The submission pipeline: PreprocessAndQueueSingularReport and           *)
(* PreprocessAndQueueBatchReport, one request at a time (requests share no *)
(* state but the queue client).                                            *)
(***************************************************************************)
sStage05Perm == sAct18d3 \o <<"_", "0", "5">> \o sPerm
sStageMain == <<"m", "a", "i", "n", "_", "0", "5">>

PipelineStageIDs == {sStage05Perm, sStageMain}
PipelineSources == {"MeoAssistant", "penguin-stats.io"}
PipelineTimes == {[sec |-> MitigationCutoffSec - 1, ms |-> 999],
                  [sec |-> MitigationCutoffSec, ms |-> 0]}
DropsMergeable ==
    <<[dropType |-> "REGULAR_DROP", itemId |-> "A", quantity |-> 1],
      [dropType |-> "NORMAL_DROP",  itemId |-> "A", quantity |-> 2]>>
DropsUnknownType ==
    <<[dropType |-> "FURNITURE",    itemId |-> "A", quantity |-> 1]>>
DropsUnknownItem ==
    <<[dropType |-> "SPECIAL_DROP", itemId |-> "B", quantity |-> 2],
      [dropType |-> "EXTRA_DROP",   itemId |-> "Z", quantity |-> 1],
      [dropType |-> "REGULAR_DROP", itemId |-> "A", quantity |-> 1]>>
PipelineDropLists == {DropsMergeable, DropsUnknownType, DropsUnknownItem}
\* the elements a batch is made of
BatchElements ==
    { [stageID |-> sStageMain,   drops |-> DropsMergeable],
      [stageID |-> sStage05Perm, drops |-> DropsUnknownType],
      [stageID |-> sStage05Perm, drops |-> DropsUnknownItem] }
TaskIDs == {"req1-aaaa", "req1-bbbb"}
Accounts == [existing |-> 7, created |-> 8]

SingleRequests ==
    [kind : {"single"}, source : PipelineSources, now : PipelineTimes,
     stageID : PipelineStageIDs, drops : PipelineDropLists, batchDrops : {<<>>}]
BatchRequests ==
    [kind : {"batch"}, source : PipelineSources,
     now : {[sec |-> MitigationCutoffSec - 1, ms |-> 999]},
     stageID : {<<>>}, drops : {<<>>},
     batchDrops : SeqsUpTo(BatchElements, MaxBatch)]

NoRequest == [kind |-> "none", source |-> "", now |-> [sec |-> 0, ms |-> 0],
              stageID |-> <<>>, drops |-> <<>>, batchDrops |-> <<>>]
NoAccount == [id |-> 0, lookup |-> "", created |-> FALSE, injected |-> FALSE]
NoProgress == [account |-> FALSE, normalized |-> 0, aggregated |-> 0,
               mitigated |-> FALSE, category |-> ""]
NoTask == [taskId |-> "", createdAt |-> 0, source |-> "", reports |-> <<>>,
           accountId |-> 0]
NoObserved == [case |-> "none", ready |-> {}]
NoRet == [taskId |-> "", err |-> "pending"]

notPipe == <<nzVars, mitVars, msgVars, recallVars, verVars>>
waitVars == <<pub, ctxDone, timerFired, observed>>

\* the elements the request is made of: one for a single report, req.BatchDrops
\* for a batch
NumElements == IF req.kind = "single" THEN 1 ELSE Len(req.batchDrops)
Element(i) ==
    IF req.kind = "single" THEN [stageID |-> req.stageID, drops |-> req.drops]
    ELSE req.batchDrops[i]

\* return taskId, err
Return(taskId, err) ==
    /\ ret' = [taskId |-> taskId, err |-> err]
    /\ returns' = returns + 1
    /\ pc' = "returned"

\* a request arrives
Submit(r) ==
    /\ pc = "idle"
    /\ req' = r
    /\ pc' = "account"
    /\ UNCHANGED <<acct, idx, reports, progress, task, stream, waitVars, ret, returns>>
    /\ UNCHANGED notPipe

SubmitSingle == \E r \in SingleRequests : Submit(r)
SubmitBatch == \E r \in BatchRequests : Submit(r)

\* Report.pipelineAccount: the outcome of GetAccountFromRequest, and, when it
\* is an error, of CreateAccountWithRandomPenguinId
pipelineAccount(lookup, createOK) ==
    IF lookup = "found"
    THEN [id |-> Accounts.existing, lookup |-> lookup, created |-> FALSE,
          injected |-> FALSE, err |-> "nil"]
    ELSE IF createOK
         THEN [id |-> Accounts.created, lookup |-> lookup, created |-> TRUE,
               injected |-> TRUE, err |-> "nil"]
         ELSE [id |-> 0, lookup |-> lookup, created |-> FALSE,
               injected |-> FALSE, err |-> "ErrCreateAccount"]

PipelineAccount ==
    /\ pc = "account"
    /\ \E lookup \in {"found", "ErrNotFound", "ErrLookup"}, createOK \in BOOLEAN :
          LET a == pipelineAccount(lookup, createOK)
          IN  /\ acct' = [id |-> a.id, lookup |-> a.lookup, created |-> a.created,
                          injected |-> a.injected]
              /\ IF a.err # "nil"
                 THEN /\ Return("", a.err)
                      /\ UNCHANGED <<idx, progress>>
                 ELSE /\ progress' = [progress EXCEPT !.account = TRUE]
                      /\ idx' = 1
                      /\ pc' = IF NumElements = 0 THEN "commit" ELSE "normalize"
                      /\ UNCHANGED <<ret, returns>>
    /\ UNCHANGED <<req, reports, task, stream, waitVars>>
    /\ UNCHANGED notPipe

\* drops, err := s.pipelineMergeDropsAndMapDropTypes(...), and the single report
\* built from them (Times: 1)
PipelineNormalize ==
    /\ pc = "normalize"
    /\ LET e == Element(idx)
       IN  \E f \in 0..Len(MergeDropsByDropTypeAndItemID(e.drops)) :
              LET out == pipelineMergeDropsAndMapDropTypes(e.drops, f)
              IN  IF out.err # "nil"
                  THEN /\ Return("", out.err)
                       /\ UNCHANGED <<reports, progress>>
                  ELSE /\ reports' = Append(reports, [stageID |-> e.stageID,
                                                      drops   |-> out.drops,
                                                      times   |-> 1])
                       /\ progress' = [progress EXCEPT !.normalized = @ + 1]
                       /\ pc' = "gachabox"
                       /\ UNCHANGED <<ret, returns>>
    /\ UNCHANGED <<req, acct, idx, task, stream, waitVars>>
    /\ UNCHANGED notPipe

\* reportutil.AggregateGachaBoxDrops: times becomes the number of pulls, the
\* sum of the drops' quantities
AggregateGachaBoxDrops(report) ==
    [report EXCEPT !.times = SumQuantity(report.drops)]

\* Report.pipelineAggregateGachaboxDrops; category is the outcome of
\* GetStageExtraProcessTypeByArkId: "error", "absent" (not Valid), or the string
\* an aggregator that does not look at the category
pipelineAggregateGachaboxDropsAlways(report, category) ==
    IF category = "error" THEN [report |-> report, err |-> "ErrStageLookup"]
    ELSE [report |-> AggregateGachaBoxDrops(report), err |-> "nil"]
pipelineAggregateGachaboxDrops(report, category) ==
    IF category = "error" THEN [report |-> report, err |-> "ErrStageLookup"]
    ELSE IF category # "absent" /\ category = "GACHABOX"
         THEN [report |-> AggregateGachaBoxDrops(report), err |-> "nil"]
         ELSE [report |-> report, err |-> "nil"]

PipelineGachabox ==
    /\ pc = "gachabox"
    /\ \E category \in {"error", "absent", "GACHABOX", "OTHER"} :
          LET out == pipelineAggregateGachaboxDrops(reports[idx], category)
          IN  IF out.err # "nil"
              THEN /\ Return("", out.err)
                   /\ progress' = [progress EXCEPT !.category = category]
                   /\ UNCHANGED <<reports, idx>>
              ELSE /\ reports' = [reports EXCEPT ![idx] = out.report]
                   /\ progress' = [progress EXCEPT !.aggregated = @ + 1,
                                                   !.category = category]
                   /\ IF idx < NumElements
                      THEN idx' = idx + 1 /\ pc' = "normalize"
                      ELSE /\ idx' = idx
                           /\ pc' = IF req.kind = "single" THEN "mitigate" ELSE "commit"
                   /\ UNCHANGED <<ret, returns>>
    /\ UNCHANGED <<req, acct, task, stream, waitVars>>
    /\ UNCHANGED notPipe

\* s.pipelineMaaAct18d3TemporaryMitigation(ctx, req): mutates req.StageID; the
\* single report holds the copy of the stage id taken when it was built
PipelineMitigate ==
    /\ pc = "mitigate"
    /\ req' = [req EXCEPT !.stageID =
                  pipelineMaaAct18d3TemporaryMitigation(req.now, req.source, @)]
    /\ progress' = [progress EXCEPT !.mitigated = TRUE]
    /\ pc' = "commit"
    /\ UNCHANGED <<acct, idx, reports, task, stream, waitVars, ret, returns>>
    /\ UNCHANGED notPipe

\* the subject the request's task is published to
SubjectOfSwapped(kind) == IF kind = "single" THEN "REPORT.BATCH" ELSE "REPORT.SINGLE"
SubjectOf(kind) == IF kind = "single" THEN "REPORT.SINGLE" ELSE "REPORT.BATCH"

\* the ReportTask literal: CreatedAt is set for a single report only
ReportTask(taskId) ==
    [taskId    |-> taskId,
     createdAt |-> IF req.kind = "single" THEN req.now.sec ELSE 0,
     source    |-> req.source,
     reports   |-> reports,
     accountId |-> acct.id]

\* commitReportTask up to the select: the task id, json.Marshal, PublishAsync
PipelineCommit ==
    /\ pc = "commit"
    /\ \E taskId \in TaskIDs, outcome \in {"ErrMarshal", "ErrPublishAsync", "published"} :
          /\ task' = ReportTask(taskId)
          /\ IF outcome # "published"
             THEN /\ Return("", outcome)
                  /\ UNCHANGED <<stream, pub>>
             ELSE /\ stream' = Append(stream, [subject |-> SubjectOf(req.kind),
                                               task    |-> ReportTask(taskId)])
                  /\ pub' = "pending"
                  /\ pc' = "wait"
                  /\ UNCHANGED <<ret, returns>>
    /\ UNCHANGED <<req, acct, idx, reports, progress, ctxDone, timerFired, observed>>
    /\ UNCHANGED notPipe

\* JetStream acknowledges the message: pub.Ok() receives the PubAck
NatsAck ==
    /\ pc = "wait" /\ pub = "pending"
    /\ pub' = "acked"
    /\ UNCHANGED <<pc, req, acct, idx, reports, progress, task, stream, ctxDone,
                   timerFired, observed, ret, returns>>
    /\ UNCHANGED notPipe

\* the publish fails: pub.Err() receives the error
NatsErr ==
    /\ pc = "wait" /\ pub = "pending"
    /\ pub' = "failed"
    /\ UNCHANGED <<pc, req, acct, idx, reports, progress, task, stream, ctxDone,
                   timerFired, observed, ret, returns>>
    /\ UNCHANGED notPipe

\* the request context is cancelled
CtxCancel ==
    /\ pc = "wait" /\ ~ctxDone
    /\ ctxDone' = TRUE
    /\ UNCHANGED <<pc, req, acct, idx, reports, progress, task, stream, pub,
                   timerFired, observed, ret, returns>>
    /\ UNCHANGED notPipe

\* ten seconds have passed since the select was entered
TimerFire ==
    /\ pc = "wait" /\ ~timerFired
    /\ timerFired' = TRUE
    /\ UNCHANGED <<pc, req, acct, idx, reports, progress, task, stream, pub,
                   ctxDone, observed, ret, returns>>
    /\ UNCHANGED notPipe

\* the cases of the select that can proceed
SelectReadyNoCtx(p, c, t) ==
    {b \in {"err", "ok", "timeout"} :
        \/ b = "err" /\ p = "failed"
        \/ b = "ok" /\ p = "acked"
        \/ b = "timeout" /\ t}
SelectReadyNoTimer(p, c, t) ==
    {b \in {"err", "ok", "ctx"} :
        \/ b = "err" /\ p = "failed"
        \/ b = "ok" /\ p = "acked"
        \/ b = "ctx" /\ c}
SelectReady(p, c, t) ==
    {b \in {"err", "ok", "ctx", "timeout"} :
        \/ b = "err" /\ p = "failed"
        \/ b = "ok" /\ p = "acked"
        \/ b = "ctx" /\ c
        \/ b = "timeout" /\ t}

\* what each case of the select returns
SelectReturnTaskIdOnTimeout(b, taskId) ==
    CASE b = "err" -> [taskId |-> "", err |-> "ErrPublish"]
      [] b = "ok" -> [taskId |-> taskId, err |-> "nil"]
      [] b = "ctx" -> [taskId |-> "", err |-> "context.Canceled"]
      [] b = "timeout" -> [taskId |-> taskId, err |-> "nil"]
SelectReturn(b, taskId) ==
    CASE b = "err" -> [taskId |-> "", err |-> "ErrPublish"]
      [] b = "ok" -> [taskId |-> taskId, err |-> "nil"]
      [] b = "ctx" -> [taskId |-> "", err |-> "context.Canceled"]
      [] b = "timeout" -> [taskId |-> "", err |-> "ErrNatsTimeout"]

\* the select of commitReportTask: one of the ready cases, chosen arbitrarily
CommitSelect ==
    /\ pc = "wait"
    /\ \E b \in SelectReady(pub, ctxDone, timerFired) :
          /\ observed' = [case |-> b, ready |-> SelectReady(pub, ctxDone, timerFired)]
          /\ Return(SelectReturn(b, task.taskId).taskId, SelectReturn(b, task.taskId).err)
    /\ UNCHANGED <<req, acct, idx, reports, progress, task, stream, pub, ctxDone,
                   timerFired>>
    /\ UNCHANGED notPipe

\* the response is sent and the consumer drains the stream; the next request
\* starts afresh
RequestDone ==
    /\ pc = "returned"
    /\ pc' = "idle"
    /\ req' = NoRequest
    /\ acct' = NoAccount
    /\ idx' = 0
    /\ reports' = <<>>
    /\ progress' = NoProgress
    /\ task' = NoTask
    /\ stream' = <<>>
    /\ pub' = "none"
    /\ ctxDone' = FALSE
    /\ timerFired' = FALSE
    /\ observed' = NoObserved
    /\ ret' = NoRet
    /\ returns' = 0
    /\ UNCHANGED notPipe

(***************************************************************************)
(* ReportService.VerifySingularReport.  The closure passed to SelectT maps *)
(* every drop, in order; for a drop type that DropTypeMap does not have it *)
(* assigns the captured err and yields a nil tuple, and it never clears    *)
(* err.                                                                    *)
(***************************************************************************)
DtoDrops == [dropType : ApiDropTypes, itemId : {"A", "B"}]

RECURSIVE SelectT(_, _, _, _)
SelectT(drops, k, tuples, err) ==
    IF k > Len(drops) THEN [tuples |-> tuples, err |-> err]
    ELSE LET drop == drops[k]
             have == drop.dropType \in DOMAIN DropTypeMap
         IN  IF ~have
             THEN SelectT(drops, k + 1, Append(tuples, <<>>),
                          [code |-> "ErrInvalidRequest", dropType |-> drop.dropType])
             ELSE SelectT(drops, k + 1,
                          Append(tuples, <<drop.itemId, DropTypeMap[drop.dropType]>>),
                          err)

NilErr == [code |-> "nil", dropType |-> ""]

\* a mapping in which the last drop alone decides err
VerifyTuplesLastDecides(drops) ==
    LET r == SelectT(drops, 1, <<>>, NilErr)
    IN  IF drops # <<>> /\ drops[Len(drops)].dropType \in DOMAIN DropTypeMap
        THEN [r EXCEPT !.err = NilErr]
        ELSE r
\* tuples and err after linq.From(report.Drops).SelectT(...).ToSlice(&tuples)
VerifyTuples(drops) == SelectT(drops, 1, <<>>, NilErr)

IdleVerify == [drops |-> <<>>, pc |-> "idle", tuples |-> <<>>, queried |-> FALSE,
               infos |-> -1, response |-> FALSE, err |-> "pending"]
VerifyInputs ==
    [drops : SeqsUpTo(DtoDrops, MaxDrops), pc : {"map"}, tuples : {<<>>},
     queried : {FALSE}, infos : {-1}, response : {FALSE}, err : {"pending"}]

\* lines 25-42: the tuples are built; an unknown drop type returns err
VerifyMapDropTypes ==
    /\ ver.pc = "map"
    /\ LET r == VerifyTuples(ver.drops)
       IN  ver' = IF r.err # NilErr
                  THEN [ver EXCEPT !.tuples = r.tuples, !.err = r.err.code,
                                   !.pc = "returned"]
                  ELSE [ver EXCEPT !.tuples = r.tuples, !.pc = "query"]
    /\ UNCHANGED <<nzVars, mitVars, msgVars, recallVars, pipeVars>>

\* lines 44-57: GetCurrentTimeRangeDropInfo returns an error or n drop infos;
\* the count is compared with len(report.Drops); ctx.JSON writes the response
\* or fails
VerifyQueryAndRespond ==
    /\ ver.pc = "query"
    /\ \E n \in -1..(Len(ver.drops) + 1), jsonOK \in BOOLEAN :
          ver' = IF n = -1
                 THEN [ver EXCEPT !.queried = TRUE, !.err = "ErrRepo", !.pc = "returned"]
                 ELSE IF n # Len(ver.drops)
                 THEN [ver EXCEPT !.queried = TRUE, !.infos = n,
                                  !.err = "ErrInvalidRequest", !.pc = "returned"]
                 ELSE IF jsonOK
                 THEN [ver EXCEPT !.queried = TRUE, !.infos = n, !.response = TRUE,
                                  !.err = "nil", !.pc = "returned"]
                 ELSE [ver EXCEPT !.queried = TRUE, !.infos = n,
                                  !.err = "ErrJSON", !.pc = "returned"]
    /\ UNCHANGED <<nzVars, mitVars, msgVars, recallVars, pipeVars>>

vars == <<nz, mit, msg, ver, kv, dropReports, deleteCalls, rc, calls, recallsStarted,
          pc, req, acct, idx, reports, progress, task, stream, pub, ctxDone,
          timerFired, observed, ret, returns>>

(***************************************************************************)
(* The initial states.  Each specification exercises one part of the       *)
(* program and leaves the others in their initial, idle state.             *)
(***************************************************************************)
InitOf(part) ==
    /\ nz \in (IF part = "normalize" THEN NormalizeInputs ELSE {IdleNormalize})
    /\ mit \in (IF part = "mitigation" THEN MitigationInputs ELSE {IdleMitigation})
    /\ msg \in (IF part = "message" THEN NewMessages ELSE {IdleMessage})
    /\ ver \in (IF part = "verify" THEN VerifyInputs ELSE {IdleVerify})
    /\ kv = [h \in ReportHashes |-> IF h = "h1" THEN 1 ELSE Nil]
    /\ dropReports = ReportIDs
    /\ deleteCalls = [r \in ReportIDs |-> 0]
    /\ rc = [c \in RecallCalls |-> IdleCall]
    /\ calls = [h \in ReportHashes |-> <<>>]
    /\ recallsStarted = 0
    /\ pc = "idle"
    /\ req = NoRequest
    /\ acct = NoAccount
    /\ idx = 0
    /\ reports = <<>>
    /\ progress = NoProgress
    /\ task = NoTask
    /\ stream = <<>>
    /\ pub = "none"
    /\ ctxDone = FALSE
    /\ timerFired = FALSE
    /\ observed = NoObserved
    /\ ret = NoRet
    /\ returns = 0

NextPipeline ==
    \/ SubmitSingle
    \/ SubmitBatch
    \/ PipelineAccount
    \/ PipelineNormalize
    \/ PipelineGachabox
    \/ PipelineMitigate
    \/ PipelineCommit
    \/ NatsAck
    \/ NatsErr
    \/ CtxCancel
    \/ TimerFire
    \/ CommitSelect
    \/ RequestDone
SpecPipeline == InitOf("pipeline") /\ [][NextPipeline]_vars
\* the timer channel delivers once ten seconds have passed, and a goroutine
\* blocked in a select with a ready case is scheduled
FairPipeline ==
    SpecPipeline /\ WF_vars(TimerFire) /\ WF_vars(CommitSelect)


NextNormalize == Normalize
SpecNormalize == InitOf("normalize") /\ [][NextNormalize]_vars

NextMitigation == Mitigate
SpecMitigation == InitOf("mitigation") /\ [][NextMitigation]_vars

NextMessage ==
    \/ SubscribeReqSetSequence
    \/ SubscribeReqSetStageId
    \/ SubscribeReqSetItemId
    \/ AppendSegment
    \/ SegmentSetStageId
    \/ SegmentSetItemId
    \/ AppendElement
    \/ ElementSetStageId
    \/ ElementSetItemId
    \/ ElementSetAmount
SpecMessage == InitOf("message") /\ [][NextMessage]_vars

NextVerify ==
    \/ VerifyMapDropTypes
    \/ VerifyQueryAndRespond
SpecVerify == InitOf("verify") /\ [][NextVerify]_vars

NextRecall ==
    \/ \E c \in RecallCalls, h \in ReportHashes : RecallStart(c, h)
    \/ \E c \in RecallCalls : RecallGet(c)
    \/ \E c \in RecallCalls : RecallDeleteDropReport(c)
    \/ \E c \in RecallCalls : RecallDel(c)
    \/ \E c \in RecallCalls : RecallFinish(c)
SpecRecall == InitOf("recall") /\ [][NextRecall]_vars

(***************************************************************************)
(* The properties.                                                         *)
(***************************************************************************)
\* C1: an invocation of commitReportTask that reaches the select observes
\* exactly one of the four outcomes and returns exactly once; it returns the
\* task id with no error iff the acknowledgement was the outcome observed, and
\* otherwise the respective error (publish error, context error,
\* ErrNatsTimeout) with an empty task id; never a task id together with an
\* error, never a task id without an acknowledgement having arrived.
C1_ExactlyOneOutcome ==
    /\ returns <= 1
    /\ (pc = "returned") <=> (returns = 1)
    /\ pc = "wait" => observed = NoObserved
    /\ observed # NoObserved =>
          /\ pc = "returned"
          /\ (ret.taskId # "") <=> (observed.case = "ok")
          /\ observed.case = "ok" =>
                ret = [taskId |-> task.taskId, err |-> "nil"] /\ pub = "acked"
          /\ observed.case = "err" =>
                ret = [taskId |-> "", err |-> "ErrPublish"] /\ pub = "failed"
          /\ observed.case = "ctx" =>
                ret = [taskId |-> "", err |-> "context.Canceled"] /\ ctxDone
          /\ observed.case = "timeout" =>
                ret = [taskId |-> "", err |-> "ErrNatsTimeout"] /\ timerFired
    /\ pc = "returned" => ~(ret.taskId # "" /\ ret.err # "nil")
    /\ ret.taskId # "" => pub = "acked"

\* C1 witness: the acknowledgement is observed although the context is done and
\* the timer has fired as well.
C1_Witness ==
    /\ pc = "returned" /\ observed.case = "ok"
    /\ observed.ready = {"ok", "ctx", "timeout"}
    /\ ret.taskId = task.taskId /\ ret.err = "nil"

\* C2: under fairness of the timer and of the select, every commit that has
\* entered the wait eventually returns; when only the timer's case is ready it
\* returns ErrNatsTimeout.
C2_TimeoutBoundsWait ==
    /\ (pc = "wait") ~> (pc = "returned")
    /\ []((pc = "returned" /\ observed.ready = {"timeout"}) =>
             ret = [taskId |-> "", err |-> "ErrNatsTimeout"])

\* C2 witness: a publish neither acknowledged nor failed, no cancellation, and
\* the commit has returned the timeout error.
C2_Witness ==
    /\ pc = "returned" /\ pub = "pending" /\ ~ctxDone /\ timerFired
    /\ ret.err = "ErrNatsTimeout"

\* an element is invalid when one of its drops has a drop type outside the
\* vocabulary
HasUnknownDropType(drops) ==
    \E k \in 1..Len(drops) : drops[k].dropType \notin DOMAIN DropTypeMap
RequestHasUnknownDropType ==
    \E k \in 1..NumElements : HasUnknownDropType(Element(k).drops)

\* C3: for a batch in which some element is invalid nothing is published, and
\* the request returns an error.
C3_BatchAtomicity ==
    (req.kind = "batch" /\ RequestHasUnknownDropType) =>
        /\ stream = <<>>
        /\ pc = "returned" => ret.err # "nil"

\* C4: a submission containing a drop whose drop type is outside the vocabulary
\* fails as a whole: it returns an error and nothing is published, so that no
\* published task carries a normalized drop whose internal drop type is outside
\* {REGULAR, SPECIAL, EXTRA}.
C4_UnknownDropTypeRejected ==
    /\ (pc = "returned" /\ RequestHasUnknownDropType) =>
          ret.err # "nil" /\ stream = <<>>
    /\ \A m \in Range(stream) : \A r \in Range(m.task.reports) :
          \A d \in Range(r.drops) : d.dropType \in InternalDropTypes

\* C5: two recalls of a hash that has a stored mapping, one after the other
\* with no other recall of that hash in between or alongside, and neither
\* handed an error by Redis.Get or DeleteDropReport, return success the first
\* time and ErrReportNotFound the second time; no two such recalls both return
\* success.
SequentialPair(h, k) ==
    /\ k + 1 <= Len(calls[h])
    /\ ~calls[h][k].overlapped /\ ~calls[h][k + 1].overlapped
    /\ ~calls[h][k].failed /\ ~calls[h][k + 1].failed
C5_RecallTwice ==
    \A h \in ReportHashes : \A k \in 1..Len(calls[h]) :
        (SequentialPair(h, k) /\ calls[h][k].hadMapping) =>
            /\ calls[h][k].result = "nil"
            /\ calls[h][k + 1].result = "ErrReportNotFound"

\* C6: the normalized drops of one submission hold at most one drop per
\* (internal drop type, internal item id) pair, whose quantity is the sum of the
\* quantities of the raw drops that map to the pair; in particular
\* [(REGULAR_DROP, A, 1), (NORMAL_DROP, A, 2)] yields exactly (REGULAR, 1, 3).
MapsTo(raw, d) ==
    /\ raw.itemId \in DOMAIN ItemCatalog
    /\ ItemCatalog[raw.itemId] = d.itemId
    /\ DropTypeMapGet(raw.dropType) = d.dropType
RECURSIVE SumMapped(_, _)
SumMapped(raws, d) ==
    IF raws = <<>> THEN 0
    ELSE (IF MapsTo(raws[1], d) THEN raws[1].quantity ELSE 0) + SumMapped(Tail(raws), d)
C6_OnePerPair ==
    nz.out.err = "nil" =>
        /\ \A i, j \in 1..Len(nz.out.drops) :
              (i # j) => ~SameKey(nz.out.drops[i], nz.out.drops[j])
        /\ \A i \in 1..Len(nz.out.drops) :
              nz.out.drops[i].quantity = SumMapped(nz.drops, nz.out.drops[i])
        /\ nz.drops = <<[dropType |-> "REGULAR_DROP", itemId |-> "A", quantity |-> 1],
                        [dropType |-> "NORMAL_DROP", itemId |-> "A", quantity |-> 2]>>
              => nz.out.drops = <<[dropType |-> "REGULAR", itemId |-> 1, quantity |-> 3]>>

\* C7: the filter rewrites the stage id iff the time is before the cutoff, the
\* source is exactly "MeoAssistant" and the stage id has the form
\* act18d3_0<digit>_perm; when it does, the trailing _perm becomes _rep; every
\* other input is left unchanged.
MatchesAct18d3Pattern(s) ==
    /\ Len(s) = 15
    /\ SubSeq(s, 1, 9) = sAct18d3 \o sUnderscore \o <<"0">>
    /\ s[10] \in Digits
    /\ SubSeq(s, 11, 15) = sPerm
MitigationApplies(m) ==
    /\ UnixMilliBeforeCutoff(m.now)
    /\ m.source = "MeoAssistant"
    /\ MatchesAct18d3Pattern(m.stageID)
C7_RewritesIffAllThree ==
    mit.done =>
        IF MitigationApplies(mit)
        THEN mit.out = SubSeq(mit.stageID, 1, 10) \o sRep
        ELSE mit.out = mit.stageID

\* every oneof of the message under construction
Oneofs ==
    IF msg.kind = "MatrixUpdateSubscribeReq" THEN {msg.id}
    ELSE IF msg.kind = "MatrixUpdateMessage"
    THEN {msg.segments[i].bucket : i \in 1..Len(msg.segments)}
         \cup UNION {{msg.segments[i].elements[j].id :
                         j \in 1..Len(msg.segments[i].elements)} :
                     i \in 1..Len(msg.segments)}
    ELSE {}

C9_CancellationPropagates ==
    /\ (pc = "wait" /\ ctxDone /\ pub = "pending" /\ ~timerFired) =>
          /\ ENABLED CommitSelect
          /\ SelectReady(pub, ctxDone, timerFired) = {"ctx"}
    /\ (pc = "returned" /\ observed.ready = {"ctx"}) =>
          /\ ret = [taskId |-> "", err |-> "context.Canceled"]
          /\ ~timerFired /\ pub = "pending"
    /\ observed.case = "ctx" => ret.err = "context.Canceled"

\* C9 witness: commit returned the cancellation error before the timer fired,
\* with the publish still pending.
C9_Witness ==
    /\ pc = "returned" /\ observed.case = "ctx" /\ observed.ready = {"ctx"}
    /\ ~timerFired /\ pub = "pending"
    /\ ret.err = "context.Canceled"

\* C10: an invocation publishes at most once, to REPORT.SINGLE for a single
\* report and REPORT.BATCH for a batch, only after account resolution,
\* normalization and gachabox aggregation of every element have succeeded; an
\* invocation that returned an error has not published a second time.
C10_AtMostOnePublish ==
    /\ Len(stream) <= 1
    /\ stream # <<>> =>
          /\ pc \in {"wait", "returned"}
          /\ req.kind = "single" => stream[1].subject = "REPORT.SINGLE"
          /\ req.kind = "batch" => stream[1].subject = "REPORT.BATCH"
          /\ progress.account
          /\ progress.normalized = NumElements
          /\ progress.aggregated = NumElements
    /\ (pc = "returned" /\ ret.err \in {"ErrPublish", "ErrNatsTimeout", "context.Canceled"}) =>
          Len(stream) = 1

\* C10 witness: a batch of two elements was published once and the commit then
\* timed out.
C10_Witness ==
    /\ pc = "returned" /\ ret.err = "ErrNatsTimeout"
    /\ req.kind = "batch" /\ NumElements = 2
    /\ Len(stream) = 1 /\ stream[1].subject = "REPORT.BATCH"

\* C11: the hash mapping changes only in the Redis.Del step of a recall whose
\* DeleteDropReport has succeeded (its report is gone from the persisted
\* reports); a recall whose DeleteDropReport fails returns that error in the
\* same step and leaves the mapping and the persisted reports as they were.
C11_DelOnlyAfterDelete ==
    [][/\ \A h \in ReportHashes :
             kv'[h] # kv[h] =>
                \E c \in RecallCalls :
                   /\ rc[c].pc = "del" /\ rc[c].hash = h /\ rc'[c].pc = "done"
                   /\ deleteCalls[rc[c].reportId] >= 1
                   /\ rc[c].reportId \notin dropReports
                   /\ kv' = [kv EXCEPT ![h] = Nil]
       /\ \A c \in RecallCalls :
             /\ (rc[c].pc = "delete" /\ rc'[c].pc = "del") =>
                   /\ rc[c].reportId \notin dropReports'
                   /\ deleteCalls'[rc[c].reportId] = deleteCalls[rc[c].reportId] + 1
             /\ (rc[c].pc = "delete" /\ rc'[c].pc = "done") =>
                   /\ rc'[c].result = "ErrDelete"
                   /\ kv' = kv /\ dropReports' = dropReports
                   /\ deleteCalls' = deleteCalls
             /\ rc'[c].pc = "del" => rc[c].pc \in {"delete", "del"}
      ]_vars

\* C11 witness: a recall of h1 failed in DeleteDropReport and left the mapping,
\* and a later recall of h1 deleted the report and then removed the mapping.
C11_Witness ==
    /\ Len(calls["h1"]) = 2
    /\ calls["h1"][1].result = "ErrDelete" /\ ~calls["h1"][1].overlapped
    /\ calls["h1"][2].result = "nil"
    /\ kv["h1"] = Nil /\ 1 \notin dropReports /\ deleteCalls[1] = 1

\* C12: a recall whose Redis.Get finds no mapping returns ErrReportNotFound,
\* and one whose Redis.Get fails otherwise returns that error; either returns
\* straight from the Get, never reaching DeleteDropReport or Redis.Del, with
\* the mapping and the persisted reports unchanged.  ErrReportNotFound is
\* returned for an absent mapping only.
C12_AbsentIsNotFound ==
    [][\A c \in RecallCalls :
          /\ (rc[c].pc = "get" /\ rc'[c].pc # "get" /\ kv[rc[c].hash] = Nil) =>
                /\ rc'[c].pc = "done"
                /\ rc'[c].result \in {"ErrReportNotFound", "ErrRedis"}
          /\ (rc[c].pc = "get" /\ rc'[c].pc = "done") =>
                /\ rc'[c].result \in {"ErrReportNotFound", "ErrRedis"}
                /\ rc'[c].result = "ErrReportNotFound" =>
                      kv[rc[c].hash] = Nil /\ ~rc'[c].failed
                /\ rc'[c].result = "ErrRedis" => rc'[c].failed
                /\ ~rc'[c].hadMapping
                /\ kv' = kv /\ dropReports' = dropReports
                /\ deleteCalls' = deleteCalls
          /\ (rc'[c].pc = "done" /\ rc[c].pc # "done"
                /\ rc'[c].result \in {"ErrReportNotFound", "ErrRedis"}) =>
                rc[c].pc = "get"
      ]_vars

\* C12 witness: two recalls of the unmapped hash h2 have returned, one with
\* ErrReportNotFound and one with the Redis error, and nothing was deleted.
C12_Witness ==
    /\ Len(calls["h2"]) = 2
    /\ {calls["h2"][1].result, calls["h2"][2].result} = {"ErrReportNotFound", "ErrRedis"}
    /\ kv["h2"] = Nil /\ kv["h1"] = 1
    /\ dropReports = ReportIDs
    /\ \A r \in ReportIDs : deleteCalls[r] = 0

\* the drops of a raw list that survive normalization: those whose item the
\* catalogue knows, in the order of the merged list, with drop type and item
\* id mapped
SurvivingDrops(raws) ==
    LET merged == MergeDropsByDropTypeAndItemID(raws)
        known == SelectSeq(merged, LAMBDA d : d.itemId \in DOMAIN ItemCatalog)
    IN  [k \in 1..Len(known) |->
            [dropType |-> DropTypeMapGet(known[k].dropType),
             itemId   |-> ItemCatalog[known[k].itemId],
             quantity |-> known[k].quantity]]

\* C13: a not-found item lookup removes only its own drop: every assembled
\* report holds all the other drops of its element, normalized and in order,
\* not-found never surfaces as the submission's error, and a submission whose
\* elements are all normalized and aggregated reaches commit.  Any other lookup
\* error aborts the submission: it returns that error, the element gets no
\* report and nothing is published.
C13_NotFoundItemSkipped ==
    /\ \A k \in 1..Len(reports) : reports[k].drops = SurvivingDrops(Element(k).drops)
    /\ ret.err # "ErrNotFound"
    /\ (pc = "returned" /\ progress.aggregated = NumElements /\ progress.account) =>
          task # NoTask
    /\ ret.err = "ErrLookup" =>
          /\ pc = "returned" /\ ret.taskId = ""
          /\ Len(reports) = idx - 1
          /\ task = NoTask /\ stream = <<>>

\* C13 witness: a single report whose second drop names an unknown item was
\* published with its first and third drop, in that order.
C13_Witness ==
    /\ req.kind = "single" /\ req.drops = DropsUnknownItem
    /\ Len(stream) = 1
    /\ stream[1].task.reports[1].drops =
          <<[dropType |-> "SPECIAL", itemId |-> 2, quantity |-> 2],
            [dropType |-> "REGULAR", itemId |-> 1, quantity |-> 1]>>

\* C14: the gachabox step changes the report it is given only when the stage's
\* extra-process-type is present and is the gachabox category.  When the stage
\* lookup fails the submission returns that error with every report unchanged
\* and nothing published; when the category is absent or another one, the
\* report passes through unchanged, with times 1 and the quantities its drops
\* had after normalization.  No other report is touched.
C14_GachaboxFrame ==
    /\ [](ret.err = "ErrStageLookup" => (pc = "returned" /\ stream = <<>>))
    /\ [][pc = "gachabox" =>
            LET category == progress'.category
                report == reports[idx]
            IN  /\ report.times = 1
                /\ report.drops = SurvivingDrops(Element(idx).drops)
                /\ \A k \in 1..Len(reports) : k # idx => reports'[k] = reports[k]
                /\ Len(reports') = Len(reports)
                /\ category = "error" =>
                      /\ pc' = "returned" /\ ret' = [taskId |-> "", err |-> "ErrStageLookup"]
                      /\ reports' = reports /\ stream' = <<>>
                /\ category \in {"absent", "OTHER"} =>
                      /\ reports' = reports /\ ret' = ret
                      /\ reports'[idx].times = 1
                /\ category = "GACHABOX" =>
                      /\ reports'[idx] = AggregateGachaBoxDrops(report) /\ ret' = ret
                /\ reports' # reports => category = "GACHABOX"
         ]_vars

\* C14 witness: a single report with drops of quantities 1 and 2 on a stage
\* without an extra-process-type has been published with times 1 and those
\* quantities.
C14_Witness ==
    /\ req.kind = "single" /\ req.drops = DropsMergeable
    /\ progress.category = "absent"
    /\ Len(stream) = 1
    /\ stream[1].task.reports[1].times = 1
    /\ stream[1].task.reports[1].drops[1].quantity = 1
    /\ stream[1].task.reports[1].drops[2].quantity = 2

\* C15: an account is created, and its identity injected into the response,
\* only when the lookup reported not-found; a successful lookup never creates
\* one; a failed creation aborts the submission before any normalization or
\* publish.
C15_CreateOnlyOnMiss ==
    /\ acct.created => acct.lookup = "ErrNotFound"
    /\ acct.injected => (acct.created /\ acct.lookup = "ErrNotFound")
    /\ acct.lookup = "found" =>
          (~acct.created /\ ~acct.injected /\ acct.id = Accounts.existing)
    /\ ret.err = "ErrCreateAccount" =>
          /\ pc = "returned" /\ ~progress.account
          /\ progress.normalized = 0 /\ reports = <<>>
          /\ task = NoTask /\ stream = <<>>

\* C16: whenever the mitigation conditions hold for a single-report request
\* (time before the cutoff, source MeoAssistant, an act18d3_..._perm stage id),
\* the report in the task published to REPORT.SINGLE carries the rewritten
\* stage id, ending in _rep: the stage id the request holds after the
\* mitigation step.
C16_MitigationReachesTask ==
    \A m \in Range(stream) :
        (m.subject = "REPORT.SINGLE" /\ UnixMilliBeforeCutoff(req.now)
            /\ req.source = "MeoAssistant" /\ progress.mitigated
            /\ HasPrefix(req.stageID, sAct18d3 \o sUnderscore)) =>
            /\ HasSuffix(m.task.reports[1].stageID, sRep)
            /\ ~HasSuffix(m.task.reports[1].stageID, sPerm)
            /\ m.task.reports[1].stageID = req.stageID

\* C17: every task published to the queue carries the task id that is
\* returned to the caller on success, a creation timestamp that is set, the
\* account id, and one single report per submitted element, in request order.
C17_TaskFullyAssembled ==
    \A m \in Range(stream) :
        /\ m.task.taskId \in TaskIDs
        /\ (pc = "returned" /\ ret.err = "nil") => ret.taskId = m.task.taskId
        /\ m.task.createdAt # 0
        /\ m.task.accountId = acct.id /\ acct.id \in {Accounts.existing, Accounts.created}
        /\ Len(m.task.reports) = NumElements
        /\ \A k \in 1..NumElements :
              m.task.reports[k].drops = SurvivingDrops(Element(k).drops)

\* C18: of two recalls of one hash that run concurrently, at most one returns
\* success and the other returns ErrReportNotFound; the persisted report is
\* deleted at most once.
C18_ConcurrentRecall ==
    /\ \A r \in ReportIDs : deleteCalls[r] <= 1
    /\ \A h \in ReportHashes : \A i, j \in 1..Len(calls[h]) :
          (i < j /\ calls[h][i].overlapped /\ calls[h][j].overlapped
                 /\ ~calls[h][i].failed /\ ~calls[h][j].failed
                 /\ (calls[h][i].hadMapping \/ calls[h][j].hadMapping)) =>
             /\ ~(calls[h][i].result = "nil" /\ calls[h][j].result = "nil")
             /\ {calls[h][i].result, calls[h][j].result} = {"nil", "ErrReportNotFound"}

\* C19: VerifySingularReport writes the response only if every drop's drop
\* type is a key of DropTypeMap and the repository returned as many drop
\* infos, for the (item id, mapped drop type) tuples of the report's drops, as
\* the report has drops.  A report with an unknown drop type at any position
\* gets the invalid-request error and the repository is not queried; a count
\* mismatch or a repository error returns an error and writes no response.
C19_VerifyAcceptsOnlyValid ==
    ver.pc = "returned" =>
        /\ ver.response =>
              /\ ~HasUnknownDropType(ver.drops)
              /\ ver.queried /\ ver.infos = Len(ver.drops) /\ ver.err = "nil"
              /\ ver.tuples = [k \in 1..Len(ver.drops) |->
                                  <<ver.drops[k].itemId, DropTypeMap[ver.drops[k].dropType]>>]
        /\ HasUnknownDropType(ver.drops) =>
              ver.err = "ErrInvalidRequest" /\ ~ver.queried /\ ~ver.response
        /\ (ver.queried /\ ver.infos # Len(ver.drops)) =>
              ver.err \in {"ErrRepo", "ErrInvalidRequest"} /\ ~ver.response
        /\ ver.err = "nil" <=> ver.response

\* C19 witness: a report whose first drop has an unknown drop type and whose
\* second drop is valid was rejected without a query.
C19_Witness ==
    /\ ver.pc = "returned" /\ Len(ver.drops) = 2
    /\ ver.drops[1].dropType = "FURNITURE" /\ ver.drops[2].dropType = "NORMAL_DROP"
    /\ ver.err = "ErrInvalidRequest" /\ ~ver.queried /\ ~ver.response

====
